---- MODULE Spec2Model ----
(***************************************************************************)
(* Model of scripts/validate_repos.py (the repository validator and        *)
(* dashboard generator) and of scripts/validate_repos_clean.py (its        *)
(* simplified variant).  A run of either script is a sequence of steps     *)
(* over the configuration file, the sibling directories of the working     *)
(* directory, and docs/status-dashboard.md.  Several runs follow each      *)
(* other; only the files survive from one run to the next.                 *)
(*                                                                         *)
(* Python strings that the code takes apart (URLs, paths, link names,      *)
(* exception messages) are sequences of one-character strings.             *)
(***************************************************************************)
EXTENDS Integers, Sequences, FiniteSets, TLC

\* ------------------------------------------------------------------ bounds
MaxLinks == 2
MaxRuns == 2

\* ------------------------------------------------------- program constants
\* str(e)[:50]
NoteLimit == 50

\* ----------------------------------------------------------------- strings
Contains(s, sub) ==
    \E k \in 1..(Len(s) - Len(sub) + 1) : SubSeq(s, k, k + Len(sub) - 1) = sub

Take(s, n) == SubSeq(s, 1, IF Len(s) < n THEN Len(s) ELSE n)

\* key.replace("_", "-")
ReplaceUnderscore(s) == [k \in 1..Len(s) |-> IF s[k] = "_" THEN "-" ELSE s[k]]

\* url.split('/')[-1]: what follows the last '/', the whole string without one
LastSlash(s) ==
    LET at == {k \in 1..Len(s) : s[k] = "/"}
    IN  IF at = {} THEN 0 ELSE CHOOSE k \in at : \A m \in at : m <= k

RepoNameOf(url) == SubSeq(url, LastSlash(url) + 1, Len(url))

DotGit == <<".", "g", "i", "t">>
GitHead == DotGit \o <<"/", "H">>
GitIgnore == DotGit \o <<"i", "g", "n", "o", "r", "e">>
SrcFile == <<"a">>

\* Path("..").resolve()
ParentDir == <<"/", "w">>

\* str(parent_dir / repo_name / rel)
PathStr(repo_name, rel) == ParentDir \o <<"/">> \o repo_name \o <<"/">> \o rel

\* ------------------------------------------------------------- environment
\* Two of the URLs end in the same segment.
Urls == { <<"o", "/", "x">>, <<"p", "/", "x">>, <<"o", "/", "y">> }

RepoDirs == {RepoNameOf(u) : u \in Urls}

\* The keys of the links mapping, in file order; keys of a mapping are distinct.
LinkNames == << <<"c">>, <<"b", "_", "r">>, <<"p", "a", "y">>, <<"l", "i", "b">> >>

LinkSeqs ==
    UNION { { [k \in 1..n |-> [name |-> LinkNames[k], url |-> f[k]]] : f \in [1..n -> Urls] }
            : n \in 0..MaxLinks }

\* .ajdlink.yaml: missing, or holding an empty document (safe_load gives None),
\* a mapping without a links key, or a mapping with links.
Configs ==
    { [exists |-> FALSE, doc |-> "nolinks", links |-> <<>>],
      [exists |-> TRUE, doc |-> "none", links |-> <<>>],
      [exists |-> TRUE, doc |-> "nolinks", links |-> <<>>] }
    \cup { [exists |-> TRUE, doc |-> "links", links |-> l] : l \in LinkSeqs }

\* A sibling directory: what stat() of it does, the entries rglob('*') yields
\* under it, what `git log` does there, and whether walking it raises.
Entry(rel, f) == [rel |-> rel, is_file |-> f]
MarkerEntries == { Entry(DotGit, FALSE), Entry(GitHead, TRUE) }
Dir(stat, entries, query, walk) ==
    [stat |-> stat, entries |-> entries, query |-> query, walk |-> walk]

DirAbsent == Dir("absent", {}, "ok", "ok")
DirStatError == Dir("error", {}, "ok", "ok")
DirNoGit == Dir("dir", {Entry(SrcFile, TRUE)}, "ok", "ok")
DirGitEmpty == Dir("dir", MarkerEntries, "ok", "ok")
DirGitFiles == Dir("dir", MarkerEntries \cup {Entry(SrcFile, TRUE)}, "ok", "ok")
DirGitIgnoreOnly == Dir("dir", MarkerEntries \cup {Entry(GitIgnore, TRUE)}, "ok", "ok")
DirGitLogFails == Dir("dir", MarkerEntries \cup {Entry(SrcFile, TRUE)}, "fail", "ok")
DirGitNoBinary == Dir("dir", MarkerEntries \cup {Entry(SrcFile, TRUE)}, "raise", "ok")
DirGitWalkError == Dir("dir", MarkerEntries \cup {Entry(SrcFile, TRUE)}, "ok", "raise")

DirStates ==
    { DirAbsent, DirStatError, DirNoGit, DirGitEmpty, DirGitFiles,
      DirGitIgnoreOnly, DirGitLogFails, DirGitNoBinary, DirGitWalkError }

\* str(e) of the exceptions: one shorter and one longer than the note's limit
QueryErrorMsg == [k \in 1..42 |-> "q"]
WalkErrorMsg == [k \in 1..60 |-> "w"]
CommitDate == "2024-01-01"

\* ------------------------------------------------------------ load_links
\* validate_repos.py load_links: the sentinel None without PyYAML, else
\* data.get("links", {}); data is None for an empty document, and open()
\* raises for a missing file.
LoadLinks(have_yaml, cfg) ==
    IF ~cfg.exists THEN [kind |-> "raise", items |-> <<>>]
    ELSE IF ~have_yaml THEN [kind |-> "sentinel", items |-> <<>>]
    ELSE IF cfg.doc = "none" THEN [kind |-> "raise", items |-> <<>>]
    ELSE [kind |-> "map", items |-> cfg.links]

\* validate_repos_clean.py load_links past its existence check: {} without
\* PyYAML, else (safe_load(f) or {}).get("links", {})
CleanLoadLinks(have_yaml, cfg) ==
    IF ~have_yaml THEN [kind |-> "map", items |-> <<>>]
    ELSE [kind |-> "map", items |-> cfg.links]

\* ----------------------------------------------------- per-repository status
\* (repo_path / ".git").exists()
HasMarker(d) == \E e \in d.entries : e.rel = DotGit

\* IsAvailable without the look for the .git marker
IsAvailable_ExistsOnly(d) == d.stat = "dir"

\* repo_path.exists() and (repo_path / ".git").exists()
IsAvailable(d) == d.stat = "dir" /\ HasMarker(d)

\* sum(1 for _ in repo_path.rglob('*') if _.is_file() and '.git' not in str(_))
FileCount(repo_name, d) ==
    Cardinality({ e \in d.entries :
                    e.is_file /\ ~Contains(PathStr(repo_name, e.rel), DotGit) })

Note(text, arg) == [text |-> text, arg |-> arg]

DefaultStatus(repo_name, d) ==
    [ name |-> repo_name,
      exists |-> d.stat = "dir",
      is_git |-> IF d.stat = "dir" THEN HasMarker(d) ELSE FALSE,
      last_sync |-> "Unknown",
      validation |-> "Not Checked",
      health |-> "Unknown",
      notes |-> Note("Repository not found", <<>>),
      file_count |-> {} ]

\* ShouldInspect with the condition dropped: every repository is inspected
ShouldInspect_Always(s) == TRUE

\* if status['exists'] and status['is_git']:
ShouldInspect(s) == s.exists /\ s.is_git

\* except Exception as e:
ErrorStatus(s, msg) ==
    [s EXCEPT !.validation = "Error", !.health = "Error",
              !.notes = Note("Git error: ", Take(msg, NoteLimit))]

\* if file_count > 0: ... else: ...
Classify(s, n) ==
    IF n > 0
    THEN [s EXCEPT !.validation = "Passed", !.health = "Healthy",
                   !.notes = Note("files", <<n>>)]
    ELSE [s EXCEPT !.validation = "Warning", !.health = "Empty",
                   !.notes = Note("No files found", <<>>)]

\* The try block: git log, then the file count, then the classification.
Inspect(repo_name, d, s) ==
    IF d.query = "raise" THEN ErrorStatus(s, QueryErrorMsg)
    ELSE LET s1 == IF d.query = "ok" THEN [s EXCEPT !.last_sync = CommitDate] ELSE s
         IN  IF d.walk = "raise" THEN ErrorStatus(s1, WalkErrorMsg)
             ELSE LET n == FileCount(repo_name, d)
                  IN  Classify([s1 EXCEPT !.file_count = {n}], n)

\* One pass of the loop body of get_repository_status, stat() not raising.
StatusOf(repo_name, d) ==
    LET s == DefaultStatus(repo_name, d)
    IN  IF ShouldInspect(s) THEN Inspect(repo_name, d, s) ELSE s

\* repositories[repo_name] = status, on a dict kept as its items in order
DictSet(items, s) ==
    IF \E k \in 1..Len(items) : items[k].name = s.name
    THEN [k \in 1..Len(items) |-> IF items[k].name = s.name THEN s ELSE items[k]]
    ELSE Append(items, s)

\* -------------------------------------------------------------- dashboard
SyncIcon(s) == IF s.last_sync # "Unknown" THEN "check" ELSE "warn"
ValidationIcon(s) ==
    IF s.validation = "Passed" THEN "check"
    ELSE IF s.validation = "Warning" THEN "warn" ELSE "cross"
HealthIcon(s) ==
    IF s.health = "Healthy" THEN "green"
    ELSE IF s.health = "Empty" THEN "yellow" ELSE "red"

DashboardRow(s) ==
    [ repo_name |-> s.name,
      sync_icon |-> SyncIcon(s),
      last_sync |-> IF s.last_sync # "Unknown" THEN s.last_sync ELSE "Not synced",
      validation_icon |-> ValidationIcon(s),
      validation |-> s.validation,
      health_icon |-> HealthIcon(s),
      health |-> s.health,
      notes |-> s.notes ]

HealthyRepos(repos) == Cardinality({k \in 1..Len(repos) : repos[k].health = "Healthy"})

\* f"{healthy / total * 100:.0f}": nearest integer, ties to even
HealthPercentage(healthy, total) ==
    IF total = 0 THEN 0
    ELSE LET q == (100 * healthy) \div total
             r == (100 * healthy) % total
         IN  IF 2 * r > total THEN q + 1
             ELSE IF 2 * r < total THEN q
             ELSE IF q % 2 = 0 THEN q ELSE q + 1

GenerateDashboard(repos, now) ==
    [ generator |-> "validate_repos",
      timestamp |-> now,
      rows |-> [k \in 1..Len(repos) |-> DashboardRow(repos[k])],
      total_repos |-> Len(repos),
      healthy_repos |-> HealthyRepos(repos),
      health_percentage |-> HealthPercentage(HealthyRepos(repos), Len(repos)) ]

\* validate_repos_clean.py write_dashboard: one fixed row per link
CleanDashboard(items, now) ==
    [ generator |-> "validate_repos_clean",
      timestamp |-> now,
      rows |-> [k \in 1..Len(items) |->
                  [ repo_name |-> ReplaceUnderscore(items[k].name),
                    last_sync |-> "check", validation |-> "check", notes |-> "Healthy" ]] ]

\* WriteFile with the file opened for appending
WriteFile_Append(old, content) == Append(old, content)

\* open(path, "w").write(content): the file holds exactly the content written
WriteFile(old, content) == <<content>>

\* return 0 if validation_success else 1
ExitCode(success) == IF success THEN 0 ELSE 1

\* ------------------------------------------------------------------ state
VARIABLES
    config,             \* the content of .ajdlink.yaml
    fs,                 \* the sibling directories, by name
    dashboard_file,     \* docs/status-dashboard.md: <<>> while missing, else <<content>>
    docs_dir,           \* whether docs/ exists
    clock,              \* datetime.utcnow() of the current run
    script,             \* which script the current run executes
    args,               \* its parsed command line
    yaml,               \* whether `import yaml` succeeds in this run
    pc,                 \* the place of the run in its script
    links,              \* the result of the latest load_links call
    idx,                \* the place of the running for loop in the links
    valid_count,        \* valid_count (validate_repos.py), found (clean)
    validation_success, \* main's validation_success: <<>> before it is set
    caller,             \* which branch of main called get_repository_status
    repos_local,        \* get_repository_status's dict, as its items in order
    repositories,       \* main's repositories
    exit_code,          \* <<>> while the run lasts, else <<code>>
    traceback,          \* whether the run ended in an uncaught exception
    stdout,             \* the printed lines
    probed,             \* the links whose directory this run has probed
    queries,            \* the directories this run has queried git in
    wrote               \* whether this run has written the dashboard file

vars ==
    << config, fs, dashboard_file, docs_dir, clock, script, args, yaml, pc,
       links, idx, valid_count, validation_success, caller, repos_local,
       repositories, exit_code, traceback, stdout, probed, queries, wrote >>

env == << config, fs >>

Scripts == {"validate_repos", "validate_repos_clean"}

\* --dashboard, --verbose, --repo NAME (<<>> when the flag is not given)
ArgSets ==
    [ dashboard : BOOLEAN, verbose : BOOLEAN,
      repo : {<<>>} \cup {RepoNameOf(u) : u \in {<<"o", "/", "x">>}} ]

NoArgs == [dashboard |-> FALSE, verbose |-> FALSE, repo |-> <<>>]

Unset == [kind |-> "unset", items |-> <<>>]

\* ConfigExists with the existence check dropped
ConfigExists_Always == TRUE

\* os.path.exists(AJDLINK_PATH)
ConfigExists == config.exists

Say(msg, arg) == Append(stdout, [msg |-> msg, arg |-> arg])
Say2(m1, m2) == stdout \o << [msg |-> m1, arg |-> <<>>], [msg |-> m2, arg |-> <<>>] >>

Init ==
    /\ config \in Configs
    /\ fs \in [RepoDirs -> DirStates]
    \* the directories no link names play no part: one of their states stands for all
    /\ \A r \in RepoDirs :
          (\A k \in 1..Len(config.links) : RepoNameOf(config.links[k].url) # r)
              => fs[r] = DirAbsent
    /\ dashboard_file = <<>>
    /\ docs_dir = FALSE
    /\ clock = 0
    /\ script = "none"
    /\ args = NoArgs
    /\ yaml = TRUE
    /\ pc = "idle"
    /\ links = Unset
    /\ idx = 0
    /\ valid_count = 0
    /\ validation_success = <<>>
    /\ caller = "none"
    /\ repos_local = <<>>
    /\ repositories = <<>>
    /\ exit_code = <<>>
    /\ traceback = FALSE
    /\ stdout = <<>>
    /\ probed = {}
    /\ queries = {}
    /\ wrote = FALSE

\* A run starts: a fresh process, the files as the earlier runs left them.
StartRun(s, a, y) ==
    /\ pc \in {"idle", "exited"}
    /\ clock < MaxRuns
    /\ clock' = clock + 1
    /\ script' = s
    /\ args' = a
    /\ yaml' = y
    /\ pc' = IF s = "validate_repos" THEN "validate" ELSE "clean_load"
    /\ links' = Unset
    /\ idx' = 0
    /\ valid_count' = 0
    /\ validation_success' = <<>>
    /\ caller' = "none"
    /\ repos_local' = <<>>
    /\ repositories' = <<>>
    /\ exit_code' = <<>>
    /\ traceback' = FALSE
    /\ stdout' = <<>>
    /\ probed' = {}
    /\ queries' = {}
    /\ wrote' = FALSE
    /\ UNCHANGED << env, dashboard_file, docs_dir >>

\* An exception nothing catches: the traceback, and exit status 1.
Uncaught ==
    /\ pc' = "exited"
    /\ exit_code' = <<1>>
    /\ traceback' = TRUE

\* ------------------------------------------------------ validate_repos.py
\* if args.verbose: get_repository_status is called, else main returns
AfterDashboard == IF args.verbose THEN "status" ELSE "exit"
CallerAfterDashboard == IF args.verbose THEN "verbose" ELSE caller

\* if args.dashboard: get_repository_status is called, else on to args.verbose
AfterValidation == IF args.dashboard THEN "status" ELSE AfterDashboard
CallerAfterValidation == IF args.dashboard THEN "dashboard" ELSE CallerAfterDashboard

\* main up to the call, and validate_repository_links up to its loop
ValidateBegin ==
    /\ pc = "validate"
    /\ LET r == LoadLinks(yaml, config)
           out == Say2("banner", "validating")
       IN  IF ~ConfigExists
           THEN /\ stdout' = Append(out, [msg |-> "not_found", arg |-> <<>>])
                /\ validation_success' = <<FALSE>>
                /\ pc' = AfterValidation
                /\ caller' = CallerAfterValidation
                /\ UNCHANGED << links, idx, valid_count, exit_code, traceback >>
           ELSE IF r.kind = "raise"
           THEN /\ Uncaught
                /\ stdout' = out
                /\ UNCHANGED << links, idx, valid_count, validation_success, caller >>
           ELSE IF r.kind = "sentinel"
           THEN /\ links' = r
                /\ stdout' = Append(out, [msg |-> "no_pyyaml_raw", arg |-> <<>>])
                /\ validation_success' = <<TRUE>>
                /\ pc' = AfterValidation
                /\ caller' = CallerAfterValidation
                /\ UNCHANGED << idx, valid_count, exit_code, traceback >>
           ELSE IF r.items = <<>>
           THEN /\ links' = r
                /\ stdout' = Append(out, [msg |-> "no_links_found", arg |-> <<>>])
                /\ validation_success' = <<FALSE>>
                /\ pc' = AfterValidation
                /\ caller' = CallerAfterValidation
                /\ UNCHANGED << idx, valid_count, exit_code, traceback >>
           ELSE /\ links' = r
                /\ stdout' = out
                /\ valid_count' = 0
                /\ idx' = 1
                /\ pc' = "validate_loop"
                /\ UNCHANGED << validation_success, caller, exit_code, traceback >>
    /\ UNCHANGED << env, dashboard_file, docs_dir, clock, script, args, yaml,
                    repos_local, repositories, probed, queries, wrote >>

\* one pass of the loop of validate_repository_links
ValidateLink ==
    /\ pc = "validate_loop"
    /\ idx <= Len(links.items)
    /\ LET l == links.items[idx]
           repo_name == RepoNameOf(l.url)
           d == fs[repo_name]
       IN  /\ probed' = probed \cup {[name |-> l.name, repo_name |-> repo_name]}
           /\ IF d.stat = "error"
              THEN /\ Uncaught
                   /\ UNCHANGED << idx, valid_count, stdout >>
              ELSE /\ idx' = idx + 1
                   /\ valid_count' = IF IsAvailable(d) THEN valid_count + 1 ELSE valid_count
                   /\ stdout' = Say(IF IsAvailable(d) THEN "found_locally"
                                    ELSE "not_found_locally", repo_name)
                   /\ UNCHANGED << pc, exit_code, traceback >>
    /\ UNCHANGED << env, dashboard_file, docs_dir, clock, script, args, yaml,
                    links, validation_success, caller, repos_local,
                    repositories, queries, wrote >>

\* return valid_count == len(links)
ValidateReturn ==
    /\ pc = "validate_loop"
    /\ idx > Len(links.items)
    /\ stdout' = Say("validation_complete", <<>>)
    /\ validation_success' = << valid_count = Len(links.items) >>
    /\ pc' = AfterValidation
    /\ caller' = CallerAfterValidation
    /\ UNCHANGED << env, dashboard_file, docs_dir, clock, script, args, yaml,
                    links, idx, valid_count, repos_local, repositories,
                    exit_code, traceback, probed, queries, wrote >>

\* get_repository_status returns to the branch of main that called it
ReturnTo == IF caller = "dashboard" THEN "write_dashboard" ELSE "verbose_dump"

\* get_repository_status up to its loop
GetStatusBegin ==
    /\ pc = "status"
    /\ repos_local' = <<>>
    /\ LET r == LoadLinks(yaml, config)
       IN  IF ~ConfigExists
           THEN /\ stdout' = Say("not_found", <<>>)
                /\ repositories' = <<>>
                /\ pc' = ReturnTo
                /\ UNCHANGED << links, idx, exit_code, traceback >>
           ELSE IF r.kind = "raise"
           THEN /\ Uncaught
                /\ UNCHANGED << links, idx, repositories, stdout >>
           ELSE IF r.kind = "sentinel"
           THEN /\ links' = r
                /\ stdout' = Say2("no_pyyaml_raw", "cannot_status_without_pyyaml")
                /\ repositories' = <<>>
                /\ pc' = ReturnTo
                /\ UNCHANGED << idx, exit_code, traceback >>
           ELSE /\ links' = r
                /\ idx' = 1
                /\ pc' = "status_loop"
                /\ UNCHANGED << repositories, stdout, exit_code, traceback >>
    /\ UNCHANGED << env, dashboard_file, docs_dir, clock, script, args, yaml,
                    valid_count, validation_success, caller, probed, queries,
                    wrote >>

\* one pass of the loop of get_repository_status
ReconcileLink ==
    /\ pc = "status_loop"
    /\ idx <= Len(links.items)
    /\ LET l == links.items[idx]
           repo_name == RepoNameOf(l.url)
           d == fs[repo_name]
       IN  /\ probed' = probed \cup {[name |-> l.name, repo_name |-> repo_name]}
           /\ IF d.stat = "error"
              THEN /\ Uncaught
                   /\ UNCHANGED << idx, repos_local, queries >>
              ELSE /\ idx' = idx + 1
                   /\ repos_local' = DictSet(repos_local, StatusOf(repo_name, d))
                   /\ queries' = IF ShouldInspect(DefaultStatus(repo_name, d))
                                 THEN queries \cup {repo_name} ELSE queries
                   /\ UNCHANGED << pc, exit_code, traceback >>
    /\ UNCHANGED << env, dashboard_file, docs_dir, clock, script, args, yaml,
                    links, valid_count, validation_success, caller,
                    repositories, stdout, wrote >>

\* return repositories
GetStatusReturn ==
    /\ pc = "status_loop"
    /\ idx > Len(links.items)
    /\ repositories' = repos_local
    /\ pc' = ReturnTo
    /\ UNCHANGED << env, dashboard_file, docs_dir, clock, script, args, yaml,
                    links, idx, valid_count, validation_success, caller,
                    repos_local, exit_code, traceback, stdout, probed, queries,
                    wrote >>

\* if repositories: generate and write the dashboard, else say why not
WriteDashboard ==
    /\ pc = "write_dashboard"
    /\ IF repositories # <<>>
       THEN /\ docs_dir' = TRUE
            /\ dashboard_file' =
                   WriteFile(dashboard_file, GenerateDashboard(repositories, clock))
            /\ wrote' = TRUE
            /\ stdout' = Say("dashboard_generated", <<>>)
       ELSE /\ stdout' = Say("cannot_dashboard_without_pyyaml", <<>>)
            /\ UNCHANGED << docs_dir, dashboard_file, wrote >>
    /\ pc' = AfterDashboard
    /\ caller' = CallerAfterDashboard
    /\ UNCHANGED << env, clock, script, args, yaml, links, idx, valid_count,
                    validation_success, repos_local, repositories,
                    exit_code, traceback, probed, queries >>

\* the detail dump of the verbose branch
VerboseDump ==
    /\ pc = "verbose_dump"
    /\ stdout' = IF repositories # <<>>
                 THEN stdout \o [k \in 1..Len(repositories) |->
                                   [msg |-> "detail", arg |-> repositories[k].name]]
                 ELSE Say("cannot_detail_without_pyyaml", <<>>)
    /\ pc' = "exit"
    /\ UNCHANGED << env, dashboard_file, docs_dir, clock, script, args, yaml,
                    links, idx, valid_count, validation_success, caller,
                    repos_local, repositories, exit_code, traceback, probed,
                    queries, wrote >>

\* return 0 if validation_success else 1
Exit ==
    /\ pc = "exit"
    /\ exit_code' = << ExitCode(validation_success[1]) >>
    /\ pc' = "exited"
    /\ UNCHANGED << env, dashboard_file, docs_dir, clock, script, args, yaml,
                    links, idx, valid_count, validation_success, caller,
                    repos_local, repositories, traceback, stdout, probed,
                    queries, wrote >>

\* ------------------------------------------------ validate_repos_clean.py
\* main up to load_links's return
CleanLoad ==
    /\ pc = "clean_load"
    /\ IF ~ConfigExists
       THEN /\ stdout' = Append(Say2("banner", "validating"),
                                [msg |-> "not_found", arg |-> <<>>])
            /\ pc' = "exited"
            /\ exit_code' = <<1>>
            /\ UNCHANGED links
       ELSE /\ links' = CleanLoadLinks(yaml, config)
            /\ stdout' = IF yaml THEN Say2("banner", "validating")
                         ELSE Append(Say2("banner", "validating"),
                                     [msg |-> "no_pyyaml_raw", arg |-> <<>>])
            /\ pc' = "clean_check"
            /\ UNCHANGED exit_code
    /\ UNCHANGED << env, dashboard_file, docs_dir, clock, script, args, yaml,
                    idx, valid_count, validation_success, caller, repos_local,
                    repositories, traceback, probed, queries, wrote >>

\* if not repos: ... sys.exit(1)
CleanCheck ==
    /\ pc = "clean_check"
    /\ IF links.items = <<>>
       THEN /\ stdout' = Say("no_repositories_found", <<>>)
            /\ pc' = "exited"
            /\ exit_code' = <<1>>
            /\ UNCHANGED << idx, valid_count >>
       ELSE /\ valid_count' = 0
            /\ idx' = 1
            /\ pc' = "clean_loop"
            /\ UNCHANGED << stdout, exit_code >>
    /\ UNCHANGED << env, dashboard_file, docs_dir, clock, script, args, yaml,
                    links, validation_success, caller, repos_local,
                    repositories, traceback, probed, queries, wrote >>

\* one pass of main's loop: found += 1
CleanListLink ==
    /\ pc = "clean_loop"
    /\ idx <= Len(links.items)
    /\ stdout' = Say("listed", links.items[idx].url)
    /\ valid_count' = valid_count + 1
    /\ idx' = idx + 1
    /\ UNCHANGED << env, dashboard_file, docs_dir, clock, script, args, yaml,
                    pc, links, validation_success, caller, repos_local,
                    repositories, exit_code, traceback, probed, queries, wrote >>

\* write_dashboard(repos) and the end of main
CleanFinish ==
    /\ pc = "clean_loop"
    /\ idx > Len(links.items)
    /\ IF links.items # <<>>
       THEN /\ docs_dir' = TRUE
            /\ dashboard_file' =
                   WriteFile(dashboard_file, CleanDashboard(links.items, clock))
            /\ wrote' = TRUE
            /\ stdout' = stdout \o << [msg |-> "validation_complete", arg |-> <<>>],
                                      [msg |-> "wrote_dashboard", arg |-> <<>>] >>
       ELSE /\ stdout' = Say("validation_complete", <<>>)
            /\ UNCHANGED << docs_dir, dashboard_file, wrote >>
    /\ pc' = "exited"
    /\ exit_code' = <<0>>
    /\ UNCHANGED << env, clock, script, args, yaml, links, idx, valid_count,
                    validation_success, caller, repos_local, repositories,
                    traceback, probed, queries >>

Next ==
    \/ \E a \in ArgSets, y \in BOOLEAN : StartRun("validate_repos", a, y)
    \/ \E y \in BOOLEAN : StartRun("validate_repos_clean", NoArgs, y)
    \/ ValidateBegin
    \/ ValidateLink
    \/ ValidateReturn
    \/ GetStatusBegin
    \/ ReconcileLink
    \/ GetStatusReturn
    \/ WriteDashboard
    \/ VerboseDump
    \/ Exit
    \/ CleanLoad
    \/ CleanCheck
    \/ CleanListLink
    \/ CleanFinish

Spec == Init /\ [][Next]_vars

\* ---------------------------------------------------------------- claims
\* What the claims speak of, read off the environment and not off the code.
Declared == config.links
DeclaredDir(k) == fs[RepoNameOf(Declared[k].url)]
Printed(msg) == \E k \in 1..Len(stdout) : stdout[k].msg = msg
Parses == config.exists /\ yaml /\ config.doc # "none"
Present(d) == d.stat = "dir" /\ (\E e \in d.entries : e.rel = DotGit)
InMarkerDir(rel) ==
    \/ rel = DotGit
    \/ Len(rel) > Len(DotGit) /\ SubSeq(rel, 1, Len(DotGit) + 1) = DotGit \o <<"/">>
NonMarkerFiles(d) == Cardinality({e \in d.entries : e.is_file /\ ~InMarkerDir(e.rel)})
Returned == pc \in {"write_dashboard", "verbose_dump"} /\ links.kind = "map"
EntryOf(items, repo_name) == {k \in 1..Len(items) : items[k].name = repo_name}
IsDefaultStatus(s) ==
    /\ s.validation = "Not Checked"
    /\ s.health = "Unknown"
    /\ s.last_sync = "Unknown"
    /\ s.notes.text = "Repository not found"
    /\ s.file_count = {}
Fresh(generator) ==
    /\ docs_dir
    /\ Len(dashboard_file) = 1
    /\ dashboard_file[1].generator = generator
    /\ dashboard_file[1].timestamp = clock

\* C1: when the configuration parses into one or more links, the result of
\* validate_repository_links is true exactly when every declared link's
\* directory exists and holds the .git marker, whatever the health of each.
C1_RunLevelResult ==
    (script = "validate_repos" /\ Parses /\ Declared # <<>> /\ validation_success # <<>>)
        => (validation_success[1] <=> \A k \in 1..Len(Declared) : Present(DeclaredDir(k)))

\* C1 witness: every repository is present and classified Empty, and the
\* run-level result is true.
C1_Witness ==
    /\ pc = "exited"
    /\ validation_success = <<TRUE>>
    /\ Len(repositories) = 2
    /\ \A k \in 1..Len(repositories) : repositories[k].health = "Empty"

\* C2 (as claimed): get_repository_status returns one entry per declared
\* link, in the links' order, also when two URLs end in the same segment.
C2_OneEntryPerLink ==
    Returned =>
        /\ Len(repositories) = Len(Declared)
        /\ \A k \in 1..Len(Declared) :
               repositories[k].name = RepoNameOf(Declared[k].url)

\* C3 (as claimed): a run without PyYAML never reports "no repositories
\* found" and probes nothing, and a run whose configuration parses to no
\* links never reports that PyYAML is missing.
C3_Distinguished ==
    /\ (pc # "idle" /\ config.exists /\ ~yaml) =>
          /\ ~Printed("no_links_found")
          /\ ~Printed("no_repositories_found")
          /\ probed = {}
          /\ queries = {}
    /\ (pc # "idle" /\ Parses /\ Declared = <<>>) =>
          /\ ~Printed("no_pyyaml_raw")
          /\ ~Printed("cannot_status_without_pyyaml")
          /\ ~Printed("cannot_dashboard_without_pyyaml")
          /\ ~Printed("cannot_detail_without_pyyaml")

\* C4 (as claimed): a configuration that exists and parses to no links
\* (an empty document included) makes load_links return an empty mapping
\* without raising, validate_repository_links return false, and the process
\* exit with code 1.
C4_EmptyConfigFails ==
    (pc = "exited" /\ config.exists /\ yaml /\ Declared = <<>>) =>
        /\ ~traceback
        /\ links = [kind |-> "map", items |-> <<>>]
        /\ exit_code = <<1>>
        /\ script = "validate_repos" => validation_success = <<FALSE>>

C6_OnlyNamedRepo ==
    (script = "validate_repos" /\ args.repo # <<>>) =>
        \A p \in probed : p.repo_name = args.repo \/ p.name = args.repo

\* C7 (as claimed): for a repository that is present and whose status is
\* not an error, file_count is the number of regular files outside the .git
\* directory; one or more with a successful query gives Passed and Healthy,
\* none gives Warning and Empty.
C7_FileCount ==
    \A k \in 1..Len(repos_local) :
        LET s == repos_local[k]
            d == fs[s.name]
        IN  (Present(d) /\ s.health # "Error") =>
                /\ s.file_count = {NonMarkerFiles(d)}
                /\ (NonMarkerFiles(d) >= 1 /\ d.query = "ok") =>
                       (s.validation = "Passed" /\ s.health = "Healthy")
                /\ NonMarkerFiles(d) = 0 =>
                       (s.validation = "Warning" /\ s.health = "Empty")

\* C8: a declared repository whose directory does not exist has, once the
\* loop of get_repository_status has passed it and in what the function
\* returns, the default status (Not Checked, Unknown, Unknown, Repository
\* not found), and git is never queried in it, whatever the other declared
\* repositories are.
C8_AbsentRepoStatus ==
    /\ \A r \in queries : fs[r].stat # "absent"
    /\ pc = "status_loop" =>
          \A k \in 1..(idx - 1) :
              DeclaredDir(k).stat = "absent" =>
                  /\ EntryOf(repos_local, RepoNameOf(Declared[k].url)) # {}
                  /\ \A e \in EntryOf(repos_local, RepoNameOf(Declared[k].url)) :
                         IsDefaultStatus(repos_local[e])
    /\ Returned =>
          \A k \in 1..Len(Declared) :
              DeclaredDir(k).stat = "absent" =>
                  /\ EntryOf(repositories, RepoNameOf(Declared[k].url)) # {}
                  /\ \A e \in EntryOf(repositories, RepoNameOf(Declared[k].url)) :
                         IsDefaultStatus(repositories[e])

\* C8 witness: get_repository_status has returned a missing repository's
\* default status next to a repository whose inspection raised.
C8_Witness ==
    /\ Returned
    /\ \E k \in 1..Len(repositories) :
           ~repositories[k].exists /\ IsDefaultStatus(repositories[k])
    /\ \E k \in 1..Len(repositories) : repositories[k].health = "Error"

C10_NeverAbortsBatch ==
    /\ traceback => links.kind # "map"
    /\ \A k \in 1..Len(repos_local) :
           LET s == repos_local[k]
               d == fs[s.name]
           IN  (Present(d) /\ (d.query = "raise" \/ d.walk = "raise")) =>
                   /\ s.validation = "Error"
                   /\ s.health = "Error"
                   /\ s.notes.text = "Git error: "
                   /\ Len(s.notes.arg) <= NoteLimit
    /\ Returned =>
          \A k \in 1..Len(Declared) :
              EntryOf(repositories, RepoNameOf(Declared[k].url)) # {}

====
